---- MODULE Spec2Model ----
(***************************************************************************)
(* Model of sku_lookup_app.py: a Streamlit script that loads a SKU master  *)
(* workbook into a dictionary and a description series, and serves a       *)
(* single lookup, a batch lookup and a reverse (description) search.       *)
(*                                                                         *)
(* Python strings are sequences of one-character strings.  A Streamlit     *)
(* script is re-executed from the top after every widget change; one run   *)
(* is modelled as the widget change followed by the steps of main().       *)
(***************************************************************************)
EXTENDS Integers, Sequences, FiniteSets, TLC

\* ------------------------------------------------------------------ bounds
MaxSheets == 2      \* sheets per uploaded workbook
MaxEntries == 2     \* data rows per uploaded workbook (over all its sheets)
MaxBatch == 2       \* rows of an uploaded batch file
MaxTermLen == 2     \* characters of a search term
MaxCached == 1      \* workbooks in the cache while the single session uploads new ones

\* ------------------------------------------------------------ Python values
\* pandas' missing value (an empty cell); distinct from every string
NaN == <<"NaN">>

\* the default of both lookups
NotFound == <<"S","K","U"," ","n","o","t"," ","f","o","u","n","d",".">>

\* str(float('nan')), what astype(str) makes of a missing cell
NanText == <<"n","a","n">>

astype_str(c) == IF c = NaN THEN NanText ELSE c

IsSpace(ch) == ch = " "

RECURSIVE lstrip(_)
lstrip(s) == IF s # <<>> /\ IsSpace(Head(s)) THEN lstrip(Tail(s)) ELSE s

RECURSIVE rstrip(_)
rstrip(s) ==
    IF s # <<>> /\ IsSpace(s[Len(s)]) THEN rstrip(SubSeq(s, 1, Len(s) - 1)) ELSE s

\* str.strip()
strip(s) == rstrip(lstrip(s))

\* str.lower() on one character of the modelled alphabet
lower(ch) == IF ch = "A" THEN "a" ELSE IF ch = "B" THEN "b" ELSE ch

\* a guard that lets every value through
truthy_always(s) == TRUE

\* truth value of a str (and of the file_uploader's None, modelled as <<>>)
truthy(s) == s # <<>>

\* dict.get(k, default)
dict_get(d, k, default) == IF k \in DOMAIN d THEN d[k] ELSE default

\* the dict after d.setdefault(k, default): a miss inserts the default
dict_setdefault(d, k, default) ==
    [x \in (DOMAIN d) \cup {k} |-> IF x \in DOMAIN d THEN d[x] ELSE default]

\* the dict after d.get(k, default): get never inserts
dict_after_get(d, k, default) == d

\* d.update(e)
dict_update(d, e) ==
    [k \in (DOMAIN d) \cup (DOMAIN e) |-> IF k \in DOMAIN e THEN e[k] ELSE d[k]]

EmptyDict == [k \in {} |-> <<>>]

\* dict(zip(keys, values)) over the rows of a frame: a later row replaces an
\* earlier one with the same key
RECURSIVE dict_zip(_)
dict_zip(rows) ==
    IF rows = <<>> THEN EmptyDict
    ELSE LET init == dict_zip(SubSeq(rows, 1, Len(rows) - 1))
             last == rows[Len(rows)]
         IN  dict_update(init, [k \in {astype_str(last.sku)} |-> astype_str(last.desc)])

\* df.dropna(subset=['SKU', 'Description'])
dropna(rows) == SelectSeq(rows, LAMBDA r : r.sku # NaN /\ r.desc # NaN)

\* df['Description'].astype(str)
RECURSIVE description_column(_)
description_column(rows) ==
    IF rows = <<>> THEN <<>>
    ELSE <<astype_str(Head(rows).desc)>> \o description_column(Tail(rows))

\* pd.concat(list_of_series, ignore_index=True); the call raises ValueError
\* ("No objects to concatenate") on an empty list
RECURSIVE pd_concat(_)
pd_concat(series) ==
    IF series = <<>> THEN <<>> ELSE Head(series) \o pd_concat(Tail(series))

concat_raises(series) == series = <<>>

\* one pattern character against one subject character under re.IGNORECASE:
\* "." is the regular-expression wildcard, every other character of the
\* modelled alphabet stands for itself
re_char_match(p, ch) == p = "." \/ lower(p) = lower(ch)

\* re.match at offset o (0-based) of a pattern made of literals and "."
re_match_at(pat, s, o) ==
    /\ o + Len(pat) <= Len(s)
    /\ \A i \in 1..Len(pat) : re_char_match(pat[i], s[o + i])

\* Series.str.contains(pat, case=False, na=False) on one string: regex=True is
\* the default, so pat is searched as a regular expression
str_contains(s, pat) == \E o \in 0..Len(s) : re_match_at(pat, s, o)

\* description_df[mask]
RECURSIVE filter_contains(_, _)
filter_contains(descs, pat) ==
    IF descs = <<>> THEN <<>>
    ELSE (IF str_contains(Head(descs), pat) THEN <<Head(descs)>> ELSE <<>>)
         \o filter_contains(Tail(descs), pat)

\* the single lookup: sku_lookup.get(sku_input.strip(), "SKU not found.")
resolve(d, s) == dict_get(d, strip(s), NotFound)

\* the batch lookup's lambda x: sku_lookup.get(x.strip(), "SKU not found.")
lookup_one(d, x) == dict_get(d, strip(x), NotFound)

\* an inner join with the table in place of the map: rows that miss are dropped
RECURSIVE batch_map_drop_missing(_, _)
batch_map_drop_missing(d, cells) ==
    IF cells = <<>> THEN <<>>
    ELSE (IF strip(astype_str(Head(cells))) \in DOMAIN d
          THEN <<[sku |-> Head(cells), desc |-> d[strip(astype_str(Head(cells)))]]>>
          ELSE <<>>)
         \o batch_map_drop_missing(d, Tail(cells))

\* batch_df[sku_col].astype(str).map(f), stored as the frame's Description
\* column beside the SKU column it was computed from
RECURSIVE batch_map(_, _)
batch_map(d, cells) ==
    IF cells = <<>> THEN <<>>
    ELSE <<[sku |-> Head(cells), desc |-> lookup_one(d, astype_str(Head(cells)))]>>
         \o batch_map(d, Tail(cells))

\* batch_df.to_excel(index=False, engine='openpyxl') is called without the
\* required excel_writer argument: the call raises TypeError, which the
\* handler's "except Exception" reports with st.error
to_excel_raises == TRUE

\* ------------------------------------------------------------------ inputs
RECURSIVE SeqsOfLen(_, _)
SeqsOfLen(S, n) ==
    IF n = 0 THEN {<<>>}
    ELSE {Append(q, x) : q \in SeqsOfLen(S, n - 1), x \in S}

SeqsUpTo(S, n) == UNION {SeqsOfLen(S, k) : k \in 0..n}

SkuA == <<"A">>
SkuAPad == <<"A", " ">>
SkuZ == <<"Z">>
DescAB == <<"a", "B">>
DescA == <<"a">>

\* rows of a master sheet: cells of the SKU and Description columns
Rows ==
    { [sku |-> SkuA, desc |-> DescAB],
      [sku |-> SkuA, desc |-> DescA],
      [sku |-> SkuAPad, desc |-> DescA],
      [sku |-> NaN, desc |-> DescAB] }

\* header_ok: the sheet has columns named exactly 'SKU' and 'Description'; on
\* any other sheet the body of the try block raises
BadSheet == [header_ok |-> FALSE, rows |-> <<>>]

\* the sheets with at most e data rows
Sheets(e) == {BadSheet} \cup {[header_ok |-> TRUE, rows |-> r] : r \in SeqsUpTo(Rows, e)}

\* the workbooks of n sheets with at most e data rows in all
RECURSIVE WorkbooksOf(_, _)
WorkbooksOf(n, e) ==
    IF n = 0 THEN {<<>>}
    ELSE UNION {{<<sh>> \o w : w \in WorkbooksOf(n - 1, e - Len(sh.rows))} : sh \in Sheets(e)}

\* an .xlsx workbook has at least one sheet
Workbooks == UNION {WorkbooksOf(n, MaxEntries) : n \in 1..MaxSheets}

\* st.file_uploader returns None until a file is chosen
NoFile == <<>>

SkuInputs == {<<>>, SkuA, SkuAPad, SkuZ}

BatchCells == {SkuAPad, SkuZ, NaN}

NoBatch == [present |-> FALSE, has_sku |-> FALSE, skus |-> <<>>]

BatchFiles ==
    {[present |-> TRUE, has_sku |-> FALSE, skus |-> <<>>]}
    \cup {[present |-> TRUE, has_sku |-> TRUE, skus |-> c] : c \in SeqsUpTo(BatchCells, MaxBatch)}

TermChars == {"b", "."}

SearchTerms == SeqsUpTo(TermChars, MaxTermLen)

\* ---- several browser sessions on one server process
\* Streamlit runs the script once per browser session, each run in a thread of
\* its own with its own widgets and its own locals
Sessions == {"s1", "s2"}

\* the workbooks the sessions upload: one sheet of two entries; two sheets of
\* one entry each under the same SKU; a workbook without a usable sheet
BookOld ==
    <<[header_ok |-> TRUE,
       rows |-> <<[sku |-> SkuA, desc |-> DescAB], [sku |-> SkuAPad, desc |-> DescA]>>]>>

BookNew ==
    <<[header_ok |-> TRUE, rows |-> <<[sku |-> SkuA, desc |-> DescA]>>],
      [header_ok |-> TRUE, rows |-> <<[sku |-> SkuA, desc |-> DescAB]>>]>>

BookBad == <<BadSheet>>

SessionBooks == {BookOld, BookNew, BookBad}

SessionSkuInputs == {<<>>, SkuAPad, SkuZ}

SessionBatch == [present |-> TRUE, has_sku |-> TRUE, skus |-> <<SkuZ, SkuAPad>>]

SessionTerms == {<<>>, <<"b">>}

\* a session that has not uploaded anything: the state of Init, as a record
FreshSession ==
    [uploaded_file |-> NoFile, sku_input |-> <<>>, batch_file |-> NoBatch,
     search_term |-> <<>>, pc |-> "idle", sheet_i |-> 1,
     fn_sku_lookup |-> EmptyDict, all_descriptions |-> <<>>,
     idx_bound |-> FALSE, sku_lookup |-> EmptyDict, description_df |-> <<>>,
     description_out |-> <<>>, batch_out |-> <<>>, batch_msgs |-> <<>>,
     search_out |-> <<>>, search_msg |-> "none", crashed |-> FALSE]


\* ------------------------------------------------------------------- state
VARIABLES
    uploaded_file,      \* widget: the master workbook, or NoFile
    sku_input,          \* widget: text of the single lookup
    batch_file,         \* widget: the batch upload
    search_term,        \* widget: text of the reverse lookup
    pc,                 \* position of the script run
    sheet_i,            \* load_sku_database: index of the next sheet
    fn_sku_lookup,      \* load_sku_database: its local sku_lookup
    all_descriptions,   \* load_sku_database: its local all_descriptions
    idx_bound,          \* main: sku_lookup, description_df are bound (line 58 returned)
    sku_lookup,         \* main: the SKU -> description dictionary
    description_df,     \* main: the series of descriptions
    description_out,    \* what the single lookup displayed (<<>> or <<text>>)
    batch_out,          \* the frame the batch lookup displayed
    batch_msgs,         \* the status messages of the batch lookup
    search_out,         \* the matches the reverse lookup displayed
    search_msg,         \* "none", "found" or "no_match"
    crashed,            \* the run ended in an uncaught exception
    ses,                \* several browser sessions: session -> that session's state
    cache               \* st.cache_data of load_sku_database: file -> returned value

widgets == <<uploaded_file, sku_input, batch_file, search_term>>
loader == <<sheet_i, fn_sku_lookup, all_descriptions>>
index == <<idx_bound, sku_lookup, description_df>>
outputs == <<description_out, batch_out, batch_msgs, search_out, search_msg>>
\* the state of one browser session on its own
session == <<widgets, pc, loader, index, outputs, crashed>>
\* the state of the server process that several sessions share
server == <<ses, cache>>
vars == <<session, server>>

Init ==
    /\ uploaded_file = NoFile
    /\ sku_input = <<>>
    /\ batch_file = NoBatch
    /\ search_term = <<>>
    /\ pc = "idle"
    /\ sheet_i = 1
    /\ fn_sku_lookup = EmptyDict
    /\ all_descriptions = <<>>
    /\ idx_bound = FALSE
    /\ sku_lookup = EmptyDict
    /\ description_df = <<>>
    /\ description_out = <<>>
    /\ batch_out = <<>>
    /\ batch_msgs = <<>>
    /\ search_out = <<>>
    /\ search_msg = "none"
    /\ crashed = FALSE
    /\ ses = [s \in Sessions |-> FreshSession]
    /\ cache = EmptyDict

\* the query sections dedented out of the "if uploaded_file:" block
start_pc_unguarded(f) == IF f # <<>> THEN "load" ELSE "single"

\* where a run goes after st.file_uploader: "if uploaded_file:" (line 56)
start_pc(f) == IF truthy(f) THEN "load" ELSE "idle"

\* A widget change re-executes the script from the top: nothing is displayed
\* yet and main's locals are unbound.  A run that does not reach the query
\* widgets (no file, or a load that raised) does not render them, and
\* Streamlit drops their values.
StartRun(f) ==
    /\ pc' = start_pc(f)
    /\ sheet_i' = 1
    /\ fn_sku_lookup' = EmptyDict
    /\ all_descriptions' = <<>>
    /\ idx_bound' = FALSE
    /\ sku_lookup' = EmptyDict
    /\ description_df' = <<>>
    /\ description_out' = <<>>
    /\ batch_out' = <<>>
    /\ batch_msgs' = <<>>
    /\ search_out' = <<>>
    /\ search_msg' = "none"
    /\ crashed' = FALSE

\* the values of the query widgets after a run that starts at position p
WidgetsAfterStart(p) ==
    IF p # "idle"
    THEN UNCHANGED <<sku_input, batch_file, search_term>>
    ELSE sku_input' = <<>> /\ batch_file' = NoBatch /\ search_term' = <<>>

\* the user picks the master workbook (line 54).  Replacing a file in place
\* starts the very run that RemoveFile, Upload and the widget changes lead to
\* (StartRun leaves nothing of the previous run), so the uploader is modelled
\* as filled only when empty.  The cache of @st.cache_data never evicts: the
\* workbooks that are not cached yet are uploaded while it holds fewer than
\* MaxCached entries.
Upload ==
    /\ pc = "idle" /\ uploaded_file = NoFile
    /\ \E f \in Workbooks :
        /\ f \in DOMAIN cache \/ Cardinality(DOMAIN cache) < MaxCached
        /\ uploaded_file' = f
        /\ StartRun(f)
        /\ WidgetsAfterStart(start_pc(f))
    /\ UNCHANGED server

\* the user removes the master workbook: uploaded_file is None again
RemoveFile ==
    /\ pc = "idle" /\ uploaded_file # NoFile
    /\ uploaded_file' = NoFile
    /\ StartRun(NoFile)
    /\ WidgetsAfterStart(start_pc(NoFile))
    /\ UNCHANGED server

\* the user edits the single-lookup text (line 62); the widget exists only in
\* a run that got past the load
SetSkuInput ==
    /\ pc = "idle" /\ idx_bound
    /\ \E s \in SkuInputs :
        /\ s # sku_input
        /\ sku_input' = s
        /\ StartRun(uploaded_file)
        /\ UNCHANGED <<uploaded_file, batch_file, search_term>>
    /\ UNCHANGED server

\* the user picks, replaces or removes the batch file (line 69)
SetBatchFile ==
    /\ pc = "idle" /\ idx_bound
    /\ \E b \in BatchFiles \cup {NoBatch} :
        /\ b # batch_file
        /\ batch_file' = b
        /\ StartRun(uploaded_file)
        /\ UNCHANGED <<uploaded_file, sku_input, search_term>>
    /\ UNCHANGED server

\* the user edits the reverse-lookup text (line 97)
SetSearchTerm ==
    /\ pc = "idle" /\ idx_bound
    /\ \E t \in SearchTerms :
        /\ t # search_term
        /\ search_term' = t
        /\ StartRun(uploaded_file)
        /\ UNCHANGED <<uploaded_file, sku_input, batch_file>>
    /\ UNCHANGED server

\* a cache that ignores which file the call was made on: every entry is
\* replaced by the value of the latest call
cache_write_unkeyed(c, f, v) == [g \in (DOMAIN c) \cup {f} |-> v]

\* the cache after a call on file f returned value v
cache_write(c, f, v) == [g \in (DOMAIN c) \cup {f} |-> IF g = f THEN v ELSE c[g]]

\* the call of line 58 finds the file in the cache of @st.cache_data (line
\* 34): the body of load_sku_database does not run, main gets a copy of the
\* value the earlier call returned
CacheHit ==
    /\ pc = "load" /\ sheet_i = 1
    /\ uploaded_file \in DOMAIN cache
    /\ sku_lookup' = cache[uploaded_file].sku_lookup
    /\ description_df' = cache[uploaded_file].description_df
    /\ idx_bound' = TRUE
    /\ pc' = "single"
    /\ UNCHANGED <<widgets, loader, outputs, crashed, server>>

\* the sheet loop has run out (line 39)
loop_done(i, xls) == i > Len(xls)

\* one iteration of "for sheet in xls.sheet_names" (lines 39-46); the body of
\* load_sku_database runs only when the file is not in the cache
LoadSheet ==
    /\ pc = "load" /\ ~loop_done(sheet_i, uploaded_file)
    /\ sheet_i = 1 => uploaded_file \notin DOMAIN cache
    /\ LET sh == uploaded_file[sheet_i]
           df == dropna(sh.rows)
       IN  IF sh.header_ok
           THEN /\ fn_sku_lookup' = dict_update(fn_sku_lookup, dict_zip(df))
                /\ all_descriptions' = Append(all_descriptions, description_column(df))
           ELSE UNCHANGED <<fn_sku_lookup, all_descriptions>>
    /\ sheet_i' = sheet_i + 1
    /\ UNCHANGED <<widgets, pc, index, outputs, crashed>>
    /\ UNCHANGED server

\* pd.concat raises on an empty list (line 47): the exception leaves
\* load_sku_database and main, and ends the run before any query widget; a
\* call that raised leaves nothing in the cache
LoadRaise ==
    /\ pc = "load" /\ loop_done(sheet_i, uploaded_file)
    /\ concat_raises(all_descriptions)
    /\ crashed' = TRUE
    /\ pc' = "idle"
    /\ sku_input' = <<>> /\ batch_file' = NoBatch /\ search_term' = <<>>
    /\ UNCHANGED <<uploaded_file, loader, index, outputs>>
    /\ UNCHANGED server

\* lines 47-48: the returned value is stored in the cache under the file
\* (line 34) and bound by the assignment of line 58
LoadReturn ==
    /\ pc = "load" /\ loop_done(sheet_i, uploaded_file)
    /\ ~concat_raises(all_descriptions)
    /\ cache' = cache_write(cache, uploaded_file,
                            [sku_lookup |-> fn_sku_lookup,
                             description_df |-> pd_concat(all_descriptions)])
    /\ sku_lookup' = fn_sku_lookup
    /\ description_df' = pd_concat(all_descriptions)
    /\ idx_bound' = TRUE
    /\ pc' = "single"
    /\ UNCHANGED <<widgets, loader, outputs, crashed, ses>>

\* lines 61-65
SingleLookup ==
    /\ pc = "single"
    /\ IF truthy(sku_input)
       THEN /\ description_out' = <<resolve(sku_lookup, sku_input)>>
            /\ sku_lookup' = dict_after_get(sku_lookup, strip(sku_input), NotFound)
       ELSE UNCHANGED <<description_out, sku_lookup>>
    /\ pc' = "batch"
    /\ UNCHANGED <<widgets, loader, idx_bound, description_df, batch_out, batch_msgs,
                   search_out, search_msg, crashed>>
    /\ UNCHANGED server

\* the dictionary after the map of line 82
RECURSIVE dict_after_map(_, _)
dict_after_map(d, cells) ==
    IF cells = <<>> THEN d
    ELSE dict_after_map(dict_after_get(d, strip(astype_str(Head(cells))), NotFound),
                        Tail(cells))

\* lines 67-93
BatchLookup ==
    /\ pc = "batch"
    /\ IF batch_file.present
       THEN IF batch_file.has_sku
            THEN /\ batch_out' = batch_map(sku_lookup, batch_file.skus)
                 /\ sku_lookup' = dict_after_map(sku_lookup, batch_file.skus)
                 /\ batch_msgs' = <<"success">>
                                  \o (IF to_excel_raises THEN <<"error">> ELSE <<>>)
            ELSE /\ batch_msgs' = <<"no_sku_column">>
                 /\ UNCHANGED <<batch_out, sku_lookup>>
       ELSE UNCHANGED <<batch_out, batch_msgs, sku_lookup>>
    /\ pc' = "reverse"
    /\ UNCHANGED <<widgets, loader, idx_bound, description_df, description_out,
                   search_out, search_msg, crashed>>
    /\ UNCHANGED server

\* lines 95-104
ReverseLookup ==
    /\ pc = "reverse"
    /\ IF truthy(search_term)
       THEN LET results == filter_contains(description_df, search_term)
            IN  IF results # <<>>
                THEN search_msg' = "found" /\ search_out' = results
                ELSE search_msg' = "no_match" /\ search_out' = <<>>
       ELSE UNCHANGED <<search_out, search_msg>>
    /\ pc' = "idle"
    /\ UNCHANGED <<widgets, loader, index, description_out, batch_out, batch_msgs,
                   crashed>>
    /\ UNCHANGED server

Next ==
    \/ Upload
    \/ RemoveFile
    \/ SetSkuInput
    \/ SetBatchFile
    \/ SetSearchTerm
    \/ CacheHit
    \/ LoadSheet
    \/ LoadRaise
    \/ LoadReturn
    \/ SingleLookup
    \/ BatchLookup
    \/ ReverseLookup

Spec == Init /\ [][Next]_vars

\* the same script with a user who leaves the reverse lookup alone
NextLookup ==
    \/ Upload
    \/ RemoveFile
    \/ SetSkuInput
    \/ SetBatchFile
    \/ CacheHit
    \/ LoadSheet
    \/ LoadRaise
    \/ LoadReturn
    \/ SingleLookup
    \/ BatchLookup
    \/ ReverseLookup

SpecLookup == Init /\ [][NextLookup]_vars

\* one session whose user works with the single and the reverse lookup and
\* leaves the batch uploader empty: BatchLookup runs and serves no batch.
\* The behaviours of several sessions at once are those of SpecSessions.
NextSearch ==
    \/ Upload
    \/ RemoveFile
    \/ SetSkuInput
    \/ SetSearchTerm
    \/ CacheHit
    \/ LoadSheet
    \/ LoadRaise
    \/ LoadReturn
    \/ SingleLookup
    \/ BatchLookup
    \/ ReverseLookup

SpecSearch == Init /\ [][NextSearch]_vars

\* ------------------------------------------------ the sessions of a server
\* The same script, run by several sessions at once.  Each session steps
\* through its own run; the steps of different sessions interleave in any
\* order.  A widget change in a session interrupts that session's run, at any
\* position, and starts it again from the top.  The sessions share one thing:
\* the cache of @st.cache_data (line 34), keyed by the uploaded file, which
\* hands out a copy of the value a finished call returned.  (Streamlit makes a
\* second call on the same key wait for the first; here both may compute,
\* which allows every interleaving of the waiting call and more.)

\* the record of a session after a rerun with master file f: StartRun and
\* WidgetsAfterStart on the fields of r
SesRerun(r, f) ==
    [FreshSession EXCEPT
        !.uploaded_file = f,
        !.pc = start_pc(f),
        !.sku_input = IF start_pc(f) # "idle" THEN r.sku_input ELSE <<>>,
        !.batch_file = IF start_pc(f) # "idle" THEN r.batch_file ELSE NoBatch,
        !.search_term = IF start_pc(f) # "idle" THEN r.search_term ELSE <<>>]

\* session s picks, replaces or removes its master workbook (line 54); the
\* uploader is the first widget of every run
SesUpload(s) ==
    /\ \E f \in SessionBooks \cup {NoFile} :
        /\ f # ses[s].uploaded_file
        /\ ses' = [ses EXCEPT ![s] = SesRerun(ses[s], f)]
    /\ UNCHANGED <<cache, session>>

\* session s edits its single-lookup text (line 62), once its run has
\* rendered the widget
SesSetSkuInput(s) ==
    /\ ses[s].idx_bound /\ ses[s].pc \in {"batch", "reverse", "idle"}
    /\ \E x \in SessionSkuInputs :
        /\ x # ses[s].sku_input
        /\ ses' = [ses EXCEPT ![s] =
                      [SesRerun(ses[s], ses[s].uploaded_file) EXCEPT !.sku_input = x]]
    /\ UNCHANGED <<cache, session>>

\* session s picks or removes its batch file (line 69)
SesSetBatchFile(s) ==
    /\ ses[s].idx_bound /\ ses[s].pc \in {"reverse", "idle"}
    /\ \E b \in {SessionBatch, NoBatch} :
        /\ b # ses[s].batch_file
        /\ ses' = [ses EXCEPT ![s] =
                      [SesRerun(ses[s], ses[s].uploaded_file) EXCEPT !.batch_file = b]]
    /\ UNCHANGED <<cache, session>>

\* session s edits its reverse-lookup text (line 97)
SesSetSearchTerm(s) ==
    /\ ses[s].idx_bound /\ ses[s].pc = "idle"
    /\ \E t \in SessionTerms :
        /\ t # ses[s].search_term
        /\ ses' = [ses EXCEPT ![s] =
                      [SesRerun(ses[s], ses[s].uploaded_file) EXCEPT !.search_term = t]]
    /\ UNCHANGED <<cache, session>>

\* the call of line 58 finds the file in the cache: load_sku_database does
\* not run, the session gets a copy of the cached value
SesCacheHit(s) ==
    /\ ses[s].pc = "load" /\ ses[s].sheet_i = 1
    /\ ses[s].uploaded_file \in DOMAIN cache
    /\ ses' = [ses EXCEPT ![s].sku_lookup = cache[ses[s].uploaded_file].sku_lookup,
                          ![s].description_df = cache[ses[s].uploaded_file].description_df,
                          ![s].idx_bound = TRUE,
                          ![s].pc = "single"]
    /\ UNCHANGED <<cache, session>>

\* LoadSheet in session s; the first iteration follows a cache miss
SesLoadSheet(s) ==
    /\ ses[s].pc = "load" /\ ~loop_done(ses[s].sheet_i, ses[s].uploaded_file)
    /\ ses[s].sheet_i = 1 => ses[s].uploaded_file \notin DOMAIN cache
    /\ LET sh == ses[s].uploaded_file[ses[s].sheet_i]
           df == dropna(sh.rows)
       IN  ses' = [ses EXCEPT
                      ![s].fn_sku_lookup =
                          IF sh.header_ok THEN dict_update(@, dict_zip(df)) ELSE @,
                      ![s].all_descriptions =
                          IF sh.header_ok THEN Append(@, description_column(df)) ELSE @,
                      ![s].sheet_i = @ + 1]
    /\ UNCHANGED <<cache, session>>

\* LoadRaise in session s: a call that raised leaves nothing in the cache
SesLoadRaise(s) ==
    /\ ses[s].pc = "load" /\ loop_done(ses[s].sheet_i, ses[s].uploaded_file)
    /\ concat_raises(ses[s].all_descriptions)
    /\ ses' = [ses EXCEPT ![s].crashed = TRUE,
                          ![s].pc = "idle",
                          ![s].sku_input = <<>>,
                          ![s].batch_file = NoBatch,
                          ![s].search_term = <<>>]
    /\ UNCHANGED <<cache, session>>

\* LoadReturn in session s: the returned value goes into the cache and, in
\* the assignment of line 58, into the session's two names
SesLoadReturn(s) ==
    /\ ses[s].pc = "load" /\ loop_done(ses[s].sheet_i, ses[s].uploaded_file)
    /\ ~concat_raises(ses[s].all_descriptions)
    /\ cache' = cache_write(cache, ses[s].uploaded_file,
                            [sku_lookup |-> ses[s].fn_sku_lookup,
                             description_df |-> pd_concat(ses[s].all_descriptions)])
    /\ ses' = [ses EXCEPT ![s].sku_lookup = ses[s].fn_sku_lookup,
                          ![s].description_df = pd_concat(ses[s].all_descriptions),
                          ![s].idx_bound = TRUE,
                          ![s].pc = "single"]
    /\ UNCHANGED session

\* SingleLookup in session s
SesSingleLookup(s) ==
    /\ ses[s].pc = "single"
    /\ ses' = [ses EXCEPT
                  ![s].description_out =
                      IF truthy(ses[s].sku_input)
                      THEN <<resolve(ses[s].sku_lookup, ses[s].sku_input)>> ELSE @,
                  ![s].sku_lookup =
                      IF truthy(ses[s].sku_input)
                      THEN dict_after_get(@, strip(ses[s].sku_input), NotFound) ELSE @,
                  ![s].pc = "batch"]
    /\ UNCHANGED <<cache, session>>

\* BatchLookup in session s
SesBatchLookup(s) ==
    /\ ses[s].pc = "batch"
    /\ LET b == ses[s].batch_file
           served == b.present /\ b.has_sku
       IN  ses' = [ses EXCEPT
                      ![s].batch_out =
                          IF served THEN batch_map(ses[s].sku_lookup, b.skus) ELSE @,
                      ![s].sku_lookup =
                          IF served THEN dict_after_map(@, b.skus) ELSE @,
                      ![s].batch_msgs =
                          IF served
                          THEN <<"success">> \o (IF to_excel_raises THEN <<"error">> ELSE <<>>)
                          ELSE IF b.present THEN <<"no_sku_column">> ELSE @,
                      ![s].pc = "reverse"]
    /\ UNCHANGED <<cache, session>>

\* ReverseLookup in session s
SesReverseLookup(s) ==
    /\ ses[s].pc = "reverse"
    /\ LET results == filter_contains(ses[s].description_df, ses[s].search_term)
       IN  ses' = [ses EXCEPT
                      ![s].search_msg =
                          IF truthy(ses[s].search_term)
                          THEN (IF results # <<>> THEN "found" ELSE "no_match") ELSE @,
                      ![s].search_out =
                          IF truthy(ses[s].search_term) THEN results ELSE @,
                      ![s].pc = "idle"]
    /\ UNCHANGED <<cache, session>>

NextSessions ==
    \E s \in Sessions :
        \/ SesUpload(s)
        \/ SesSetSkuInput(s)
        \/ SesSetBatchFile(s)
        \/ SesSetSearchTerm(s)
        \/ SesCacheHit(s)
        \/ SesLoadSheet(s)
        \/ SesLoadRaise(s)
        \/ SesLoadReturn(s)
        \/ SesSingleLookup(s)
        \/ SesBatchLookup(s)
        \/ SesReverseLookup(s)

SpecSessions == Init /\ [][NextSessions]_vars

\* ------------------------------------------------- vocabulary of the claims
\* the (sku, description) entries a workbook contributes, in sheet and row order
RECURSIVE Entries(_)
Entries(w) ==
    IF w = <<>> THEN <<>>
    ELSE (IF Head(w).header_ok
          THEN [i \in 1..Len(dropna(Head(w).rows)) |->
                   [sku |-> astype_str(dropna(Head(w).rows)[i].sku),
                    desc |-> astype_str(dropna(Head(w).rows)[i].desc)]]
          ELSE <<>>)
         \o Entries(Tail(w))

Keys(entries) == {entries[i].sku : i \in 1..Len(entries)}

\* the description of the last entry that carries key k
LastDesc(entries, k) ==
    LET last == CHOOSE i \in 1..Len(entries) :
                    /\ entries[i].sku = k
                    /\ \A j \in (i + 1)..Len(entries) : entries[j].sku # k
    IN  entries[last].desc

\* the table and the description list of a finished build
TableOf(entries) == [k \in Keys(entries) |-> LastDesc(entries, k)]

DescsOf(entries) == [i \in 1..Len(entries) |-> entries[i].desc]

Range(f) == {f[x] : x \in DOMAIN f}

\* term occurs in s as a literal substring, compared case-insensitively
LiteralContains(s, term) ==
    \E o \in 0..(Len(s) - Len(term)) :
        \A i \in 1..Len(term) : lower(term[i]) = lower(s[o + i])

LiteralMatches(descs, term) == SelectSeq(descs, LAMBDA d : LiteralContains(d, term))

\* the run is past the single lookup / the batch lookup / all three
PastSingle == idx_bound /\ pc \in {"batch", "reverse", "idle"}
PastBatch == idx_bound /\ pc \in {"reverse", "idle"}
RunDone == idx_bound /\ pc = "idle"

BatchServed == PastBatch /\ batch_file.present /\ batch_file.has_sku

NoOutput ==
    /\ description_out = <<>>
    /\ batch_out = <<>>
    /\ batch_msgs = <<>>
    /\ search_out = <<>>
    /\ search_msg = "none"

\* ------------------------------------------------------------------ claims

\* C1 (as claimed): for every SKU that is the key of at least one entry of the
\* loaded workbook, the single lookup of exactly that SKU displays the
\* description of the last entry carrying it, never an earlier one and never
\* the not-found text.
C1_LastWriteWins ==
    (PastSingle /\ sku_input \in Keys(Entries(uploaded_file)))
        => description_out = <<LastDesc(Entries(uploaded_file), sku_input)>>

\* C2 (as claimed): a lookup of a SKU that is missing from the table never
\* ends in an error state.  Every looked-up string that is absent from the
\* table, in the single lookup and at every row of a batch, gets the not-found
\* text; a batch keeps all its rows, and a batch that holds a missing SKU is
\* served without an error message.
C2_AbsentInputNotFound ==
    /\ (PastSingle /\ truthy(sku_input) /\ sku_input \notin DOMAIN sku_lookup)
           => description_out = <<NotFound>>
    /\ BatchServed =>
           /\ Len(batch_out) = Len(batch_file.skus)
           /\ \A i \in 1..Len(batch_file.skus) :
                  astype_str(batch_file.skus[i]) \notin DOMAIN sku_lookup
                      => /\ batch_out[i].desc = NotFound
                         /\ "error" \notin Range(batch_msgs)

\* C3: the batch result has one row per input row, in input order; row i keeps
\* the i-th input SKU and carries what the single lookup returns for its text.
C3_BatchIsPointwiseResolve ==
    BatchServed =>
        /\ Len(batch_out) = Len(batch_file.skus)
        /\ \A i \in 1..Len(batch_file.skus) :
               /\ batch_out[i].sku = batch_file.skus[i]
               /\ batch_out[i].desc = resolve(sku_lookup, astype_str(batch_file.skus[i]))

\* C3 witness: a served batch of two different rows, the first missing and the
\* second found.
C3_Witness ==
    /\ BatchServed
    /\ Len(batch_file.skus) = 2
    /\ batch_file.skus[1] # batch_file.skus[2]
    /\ batch_out[1].desc = NotFound
    /\ batch_out[2].desc \in Range(sku_lookup)

\* C4 (as claimed): for a non-empty term the reverse lookup displays exactly
\* the descriptions that contain the term as a literal substring, compared
\* case-insensitively, in the order of the description list.
C4_LiteralSubstringSearch ==
    (RunDone /\ truthy(search_term))
        => search_out = LiteralMatches(description_df, search_term)

\* C5: with an empty search term, on a loaded index that has descriptions,
\* the reverse lookup displays no match at all.
C5_EmptyTermNoMatches ==
    (RunDone /\ search_term = <<>> /\ description_df # <<>>)
        => search_out = <<>> /\ search_msg = "none"

\* C5 witness: a finished run over a non-empty description list with an empty
\* search term, while the other lookups of the same run did display results.
C5_Witness ==
    /\ RunDone
    /\ search_term = <<>>
    /\ Len(description_df) = 2
    /\ description_out # <<>>
    /\ search_out = <<>>

\* C6 (as claimed): a workbook that yields no entry never produces a loaded
\* index; the build fails instead.
C6_EmptyDatasetFails ==
    idx_bound => Entries(uploaded_file) # <<>>

\* C7: as long as main's index is not bound (no file, the load still running,
\* or the load failed) nothing of any lookup is displayed.  The index gets
\* bound only by the return of a load that read every sheet of the file, or
\* by a cache hit on that file; and a file enters the cache only with the
\* return of such a load of it.
C7_UnloadedServesNothing ==
    /\ [](~idx_bound => NoOutput)
    /\ [][(~idx_bound /\ idx_bound')
              => /\ pc = "load"
                 /\ uploaded_file # NoFile
                 /\ \/ sheet_i > Len(uploaded_file) /\ all_descriptions # <<>>
                    \/ sheet_i = 1 /\ uploaded_file \in DOMAIN cache]_vars
    /\ [][\A f \in (DOMAIN cache') \ (DOMAIN cache) :
              /\ f = uploaded_file
              /\ pc = "load"
              /\ sheet_i > Len(uploaded_file)
              /\ all_descriptions # <<>>]_vars

\* C7 witness: a run that failed in the load, with the file still uploaded and
\* nothing displayed.
C7_Witness ==
    /\ crashed
    /\ pc = "idle"
    /\ uploaded_file # NoFile
    /\ ~idx_bound
    /\ NoOutput

\* what one session holds and displays is the whole build of its own file
SeesWholeBuild(r) ==
    LET entries == Entries(r.uploaded_file)
    IN  /\ r.pc = "load" => ~r.idx_bound
        /\ ~r.idx_bound => (r.sku_lookup = EmptyDict /\ r.description_df = <<>>)
        /\ r.idx_bound
               => (r.sku_lookup = TableOf(entries) /\ r.description_df = DescsOf(entries))
        /\ r.description_out # <<>>
               => r.description_out = <<resolve(TableOf(entries), r.sku_input)>>
        /\ r.batch_out # <<>>
               => r.batch_out = batch_map(TableOf(entries), r.batch_file.skus)
        /\ r.search_msg # "none"
               => r.search_out = filter_contains(DescsOf(entries), r.search_term)

\* a load of the session is under way: some sheet is read and some is not
MidBuild(r) ==
    /\ r.pc = "load"
    /\ r.sheet_i > 1
    /\ r.sheet_i <= Len(r.uploaded_file)
    /\ r.fn_sku_lookup # EmptyDict

\* C8: while sessions load, reload and query in any interleaving, the
\* dictionary and the description list a session's lookups read are never
\* partial and never from different builds: they are unbound while its load
\* runs, and once bound they are the table and the list of all entries of the
\* file that session uploaded, whether built by the session or taken from the
\* cache; every single, batch and reverse lookup result on display was
\* computed from that whole build; and the cache holds whole builds only.
C8_QueriesSeeWholeBuild ==
    /\ \A s \in Sessions : SeesWholeBuild(ses[s])
    /\ \A f \in DOMAIN cache :
           /\ cache[f].sku_lookup = TableOf(Entries(f))
           /\ cache[f].description_df = DescsOf(Entries(f))

\* C8 witness: one session is in the middle of building the two-sheet
\* workbook, its accumulator holding the first sheet only, while another
\* session, on a different and already loaded workbook, has displayed a
\* single and a batch lookup and stands before its reverse lookup.
C8_Witness ==
    \E s, t \in Sessions :
        /\ s # t
        /\ MidBuild(ses[s])
        /\ ses[s].fn_sku_lookup # TableOf(Entries(ses[s].uploaded_file))
        /\ ses[t].uploaded_file \notin {NoFile, ses[s].uploaded_file}
        /\ ses[t].pc = "reverse"
        /\ ses[t].description_out # <<>>
        /\ ses[t].batch_out # <<>>
        /\ truthy(ses[t].search_term)

\* C9: no step taken on a bound index, a hit or a miss of any of the three
\* lookups, changes the dictionary or the description list.
C9_LookupsLeaveIndexUnchanged ==
    [][(idx_bound /\ idx_bound')
           => (sku_lookup' = sku_lookup /\ description_df' = description_df)]_vars

\* C9 witness: a finished run over a non-empty table in which the single
\* lookup missed and the batch lookup had a hit and a miss.
C9_Witness ==
    /\ RunDone
    /\ sku_lookup # EmptyDict
    /\ description_out = <<NotFound>>
    /\ \E i, j \in 1..Len(batch_out) :
           batch_out[i].desc = NotFound /\ batch_out[j].desc # NotFound

\* C10 (as claimed): after a build the description list holds exactly the
\* descriptions the table maps some SKU to.
C10_ListMatchesTable ==
    idx_bound => Range(description_df) = Range(sku_lookup)

====
